---- MODULE Spec2Model ----
(***************************************************************************)
(* The ride lifecycle of the Triper client: a remote store of ride         *)
(* records (Firebase Realtime Database, path rideRequests/{id}), customer  *)
(* sessions (CustomerInterface.tsx) and driver sessions                    *)
(* (DriverInterface.tsx).  Every await of the source is a step boundary:   *)
(* an asynchronous call is an entry of `ops' whose pc says which await it  *)
(* is suspended at, so that other sessions' steps interleave exactly where *)
(* the event loop lets them.                                               *)
(*                                                                         *)
(* Units.  Positions are points of one meridian, 0.1 mile apart; on a      *)
(* meridian the haversine formula of calculateDistance reduces to          *)
(* R * |dLat|, so distances are exact multiples of 0.1 mile and are kept   *)
(* in hundredths of a mile.  Times are epoch milliseconds.                 *)
(***************************************************************************)
EXTENDS Integers, Sequences, FiniteSets, TLC

\* ------------------------------------------------------------- bounds
MaxRides == 2        \* ride ids the store hands out
MaxPos == 2          \* positions 0..MaxPos
MaxMileage == 20     \* cap of a session's mileage accumulator (hundredths)
MaxInflight == 1     \* asynchronous handler calls in flight per session
MaxGeo == 1          \* geolocation requests pending per driver session
MaxFixes == 2        \* positions the geolocation service delivers to a driver
MaxTicks == 3        \* 5-second steps of the clock
MaxPlaces == 6       \* place ids a search returns
MaxSaves == 6        \* calls of saveRecentSearch

\* ------------------------------------------------------------- values
NoneInt == 0 - 1
NoneStr == "none"
NoTime == <<"none", 0>>

Customers == {"c1", "c2"}
Drivers == {"d1", "d2"}
Locs == 0 .. MaxPos
RideIds == 1 .. MaxRides

\* The customer's device position (the pickup) and the destination offered.
PickupOf(c) == 0
Destinations == {MaxPos}
DefaultPrice == 2500

DriverNameOf(d) == IF d = "d1" THEN "Driver One" ELSE "Driver Two"
DriverPhoneOf(d) == IF d = "d1" THEN "+201000000001" ELSE "+201000000002"

StartOfTime == 10 * 60 * 1000

\* A RideRequest; a field that is absent holds the none value of its type.
\* `id' is absent in the store and set on the copies the clients hold.
Blank ==
  [ id |-> 0, customerId |-> NoneStr, requestTime |-> NoTime,
    pickupLocation |-> NoneInt, destinationLocation |-> NoneInt,
    estimatedPrice |-> NoneInt, status |-> NoneStr,
    driverId |-> NoneStr, driverName |-> NoneStr, driverPhoneNumber |-> NoneStr,
    startTime |-> NoneInt, endTime |-> NoneInt, cancelTime |-> NoneInt,
    startTripLocation |-> NoneInt, currentDriverLocation |-> NoneInt,
    calculatedMileage |-> NoneInt ]

Fields == DOMAIN Blank

Exists(r) == r # Blank

WithId(r, k) == [r EXCEPT !.id = k]

\* { ...snapshot, ...updates }: the fields updates names win.
Spread(r, p) == [f \in Fields |-> IF f \in DOMAIN p THEN p[f] ELSE r[f]]

ActiveStatuses == {"pending", "accepted", "started"}
\* With the finished rides among them.
DriverStatusesWithCompleted == {"accepted", "started", "completed"}

DriverActiveStatuses == {"accepted", "started"}

Abs(x) == IF x < 0 THEN 0 - x ELSE x

\* calculateDistance, in hundredths of a mile, between two positions.
calculateDistance(a, b) == 10 * Abs(a - b)

\* 0.1 mile
PICKUP_PROXIMITY_THRESHOLD == 10

\* requestTime as epoch milliseconds, whichever representation it has.
TimeOf(rt) == rt[2]

VARIABLES
  rides,     \* the store: ride id -> RideRequest (Blank: no such record)
  now,       \* the clock, epoch milliseconds
  cust,      \* customer session state, by customer id
  drv,       \* driver session state, by driver id
  ops,       \* asynchronous calls in flight
  geo,       \* geolocation requests pending, with the closure they captured
  timers,    \* setTimeout callbacks pending
  storage,   \* localStorage of each customer's browser: the ride entries
  searches,  \* localStorage 'recentSearches', and the places saved so far
  phones     \* phone numbers: localStorage of each browser, and the store

vars == <<rides, now, cust, drv, ops, geo, timers, storage, searches, phones>>

\* A browser is named after the driver who first uses it.
Browsers == Drivers

\* No phone number in any browser nor in the store.
NoPhones ==
  [local |-> [b \in Browsers |-> [phone_number |-> NoneStr, user_id |-> NoneStr]],
   remote |-> [u \in Drivers |-> NoneStr]]

\* No 'recentSearches' entry, no search saved yet.
NoSearches == [stored |-> <<>>, saved |-> <<>>]

NoUpd == [nothing |-> TRUE]

NoCache == [activeRide |-> Blank, currentRideId |-> 0]

InitCust ==
  [ activeRide |-> Blank, currentRideId |-> 0, selectedDestination |-> NoneInt,
    currentLocation |-> 0, manualPrice |-> "25.00",
    isLoading |-> FALSE, cancellingRide |-> FALSE ]

InitDrv ==
  [ currentLocation |-> NoneInt, pendingRides |-> {}, activeRide |-> Blank,
    mileage |-> 0, startLocation |-> NoneInt, isTracking |-> FALSE,
    hasPhoneNumber |-> FALSE, userPhoneNumber |-> "", isLoading |-> FALSE,
    fixes |-> 0 ]

Init ==
  /\ rides = [k \in RideIds |-> Blank]
  /\ now = StartOfTime
  /\ cust = [c \in Customers |-> InitCust]
  /\ drv = [d \in Drivers |-> InitDrv]
  /\ ops = {}
  /\ geo = {}
  /\ timers = {}
  /\ searches = NoSearches
  /\ phones = NoPhones
  /\ storage = [c \in Customers |-> NoCache]

OpsOf(w) == {o \in ops : o.who = w}

\* A session has room for another asynchronous handler call.
Room(w, lim) == Cardinality(OpsOf(w)) < lim

\* The tracking state a driver's handler closes over.
Closure(w) ==
  IF w \in Drivers
    THEN [isTracking |-> drv[w].isTracking, startLocation |-> drv[w].startLocation,
          mileage |-> drv[w].mileage]
    ELSE [isTracking |-> FALSE, startLocation |-> NoneInt, mileage |-> 0]

NewOp(w, kind, rid, pc, upd, cap) ==
  [who |-> w, kind |-> kind, rid |-> rid, pc |-> pc, snap |-> Blank,
   upd |-> upd, cap |-> cap, pre |-> Closure(w)]


\* ------------------------------------------------ the remote data gateway
\* updateRideRequest(rideId, updates): await get, then await set of the
\* snapshot read with the updates spread over it.  The two awaits are two
\* steps; the set writes the whole record.
updateRideRequestGet(o) ==
  /\ o.pc = "get"
  /\ ops' = (ops \ {o}) \cup {[o EXCEPT !.pc = "set", !.snap = rides[o.rid]]}
  /\ UNCHANGED <<rides, now, searches, phones, cust, drv, geo, timers, storage>>

\* set(rideRef, updates) whatever was read.
SetValueReplacing(snap, upd) == Spread(Blank, upd)

SetValue(snap, upd) ==
  IF Exists(snap) THEN Spread(snap, upd) ELSE Spread(Blank, upd)

\* The location write of updateDriverLocation awaits nothing after the set;
\* every other caller resumes after it.
updateRideRequestSet(o) ==
  /\ o.pc = "set"
  /\ rides' = [rides EXCEPT ![o.rid] = SetValue(o.snap, o.upd)]
  /\ ops' = IF o.kind = "location"
              THEN ops \ {o}
              ELSE (ops \ {o}) \cup {[o EXCEPT !.pc = "resume"]}
  /\ UNCHANGED <<now, searches, phones, cust, drv, geo, timers, storage>>

\* The first record, in key order, that a query's forEach stops at.
FirstKey(S) == CHOOSE k \in S : \A j \in S : k <= j

CustomerActiveKeys(c) ==
  {k \in RideIds : rides[k].customerId = c /\ rides[k].status \in ActiveStatuses}

checkCustomerActiveRide(c) ==
  IF CustomerActiveKeys(c) = {} THEN Blank
  ELSE WithId(rides[FirstKey(CustomerActiveKeys(c))], FirstKey(CustomerActiveKeys(c)))

DriverActiveKeys(d) ==
  {k \in RideIds : rides[k].driverId = d /\ rides[k].status \in DriverActiveStatuses}

listenToDriverActiveRide(d) ==
  IF DriverActiveKeys(d) = {} THEN Blank
  ELSE WithId(rides[FirstKey(DriverActiveKeys(d))], FirstKey(DriverActiveKeys(d)))

listenToPendingRides ==
  {WithId(rides[k], k) : k \in {j \in RideIds : rides[j].status = "pending"}}

\* ------------------------------------------------------ driver session
\* The pending-rides effect: while the session holds an accepted or started
\* ride the list is emptied and the listener is off.
DriverHoldsRide(s) == s.activeRide.status \in DriverActiveStatuses

DrvEffects(s) == IF DriverHoldsRide(s) THEN [s EXCEPT !.pendingRides = {}] ELSE s

SetDrv(d, s) == drv' = [drv EXCEPT ![d] = DrvEffects(s)]

\* The dashboard shows its cards only when not loading.
DriverCards(d) == ~drv[d].isLoading

\* savePhoneNumber(userId, phoneNumber) in browser b: localStorage first,
\* then the record phone_numbers/userId, whose write may fail silently.
savePhoneNumber(b, userId, phoneNumber, stored) ==
  [local |-> [phones.local EXCEPT
                ![b] = [phone_number |-> phoneNumber, user_id |-> userId]],
   remote |-> IF stored THEN [phones.remote EXCEPT ![userId] = phoneNumber]
                        ELSE phones.remote]

\* getPhoneNumber(userId) in browser b: localStorage first, then the store.
getPhoneNumber(b, userId) ==
  IF phones.local[b].phone_number # NoneStr
    THEN phones.local[b].phone_number
    ELSE phones.remote[userId]

\* getPhoneNumber keeps what it read from the store in localStorage.
PhonesRead(b, userId) ==
  [phones EXCEPT !.local[b].phone_number = getPhoneNumber(b, userId)]

hasStoredPhoneNumber(b, userId) == getPhoneNumber(b, userId) # NoneStr

\* The phone modal's submit, by driver d using browser b.
handlePhoneSubmitIn(d, b, stored) ==
  /\ ~drv[d].hasPhoneNumber
  /\ phones' = savePhoneNumber(b, d, DriverPhoneOf(d), stored)
  /\ SetDrv(d, [drv[d] EXCEPT !.hasPhoneNumber = TRUE,
                              !.userPhoneNumber = DriverPhoneOf(d)])
  /\ UNCHANGED <<rides, now, searches, cust, ops, geo, timers, storage>>

\* Each driver in the browser named after them, the record stored.
handlePhoneSubmit(d) == handlePhoneSubmitIn(d, d, TRUE)

\* The mount effect checkPhoneNumber of a session of driver d opened in
\* browser b.
checkPhoneNumber(d, b) ==
  /\ phones' = PhonesRead(b, d)
  /\ SetDrv(d, [InitDrv EXCEPT
                  !.hasPhoneNumber = hasStoredPhoneNumber(b, d),
                  !.userPhoneNumber = IF hasStoredPhoneNumber(b, d)
                                        THEN getPhoneNumber(b, d) ELSE ""])
  /\ UNCHANGED <<rides, now, searches, cust, ops, geo, timers, storage>>

DriverPendingSnapshot(d) ==
  /\ ~DriverHoldsRide(drv[d])
  /\ SetDrv(d, [drv[d] EXCEPT !.pendingRides =
                  {r \in listenToPendingRides : r.customerId # d}])
  /\ UNCHANGED <<rides, now, searches, phones, cust, ops, geo, timers, storage>>

DriverActiveSnapshot(d) ==
  /\ SetDrv(d, [drv[d] EXCEPT !.activeRide = listenToDriverActiveRide(d)])
  /\ UNCHANGED <<rides, now, searches, phones, cust, ops, geo, timers, storage>>

\* The status alone, without the driver's fields.
AcceptStatusOnly(d) == [status |-> "accepted"]

AcceptUpdates(d) ==
  [status |-> "accepted", driverId |-> d, driverName |-> DriverNameOf(d),
   driverPhoneNumber |-> drv[d].userPhoneNumber]

\* The list of available requests is shown while the session holds no ride
\* or a completed one.
acceptRide(d, ride, lim) ==
  /\ DriverCards(d)
  /\ ~Exists(drv[d].activeRide) \/ drv[d].activeRide.status = "completed"
  /\ ride \in drv[d].pendingRides
  /\ drv[d].hasPhoneNumber
  /\ Room(d, lim)
  /\ ops' = ops \cup {NewOp(d, "accept", ride.id, "get", AcceptUpdates(d), ride)}
  /\ UNCHANGED <<rides, now, searches, phones, cust, drv, geo, timers, storage>>

\* After the awaited update: setActiveRide({...ride, ...updatedRide}).
HandlerResume(d, o) ==
  /\ o.who = d
  /\ o.kind \in {"accept", "start", "complete"}
  /\ o.pc = "resume"
  /\ SetDrv(d, [drv[d] EXCEPT !.activeRide = Spread(o.cap, o.upd)])
  /\ ops' = ops \ {o}
  /\ UNCHANGED <<rides, now, searches, phones, cust, geo, timers, storage>>

\* The proximity check left out.
NeverTooFarFromPickup(distanceToPickup) == FALSE

TooFarFromPickup(distanceToPickup) == distanceToPickup > PICKUP_PROXIMITY_THRESHOLD

StartUpdates(d) ==
  [status |-> "started", startTime |-> now,
   startTripLocation |-> drv[d].currentLocation, calculatedMileage |-> 0]

startRide(d, lim) ==
  /\ DriverCards(d)
  /\ Exists(drv[d].activeRide)
  /\ drv[d].activeRide.status = "accepted"
  /\ drv[d].currentLocation # NoneInt
  /\ drv[d].activeRide.pickupLocation # NoneInt =>
       ~TooFarFromPickup(calculateDistance(drv[d].currentLocation,
                                           drv[d].activeRide.pickupLocation))
  /\ Room(d, lim)
  /\ SetDrv(d, [drv[d] EXCEPT !.startLocation = drv[d].currentLocation,
                              !.isTracking = TRUE, !.mileage = 0])
  /\ ops' = ops \cup {NewOp(d, "start", drv[d].activeRide.id, "get",
                            StartUpdates(d), drv[d].activeRide)}
  /\ UNCHANGED <<rides, now, searches, phones, cust, geo, timers, storage>>

CompleteUpdates(d) ==
  [status |-> "completed", endTime |-> now, calculatedMileage |-> drv[d].mileage]

\* The awaited updateRideRequest rejects: a read or a write that fails
\* leaves the store as it is and throws into the handler.
updateRideRequestReject(o) ==
  /\ o.pc \in {"get", "set"}
  /\ o.kind \in {"accept", "start", "complete", "cancel"}
  /\ ops' = (ops \ {o}) \cup {[o EXCEPT !.pc = "failed"]}
  /\ UNCHANGED <<rides, now, searches, phones, cust, drv, geo, timers, storage>>

\* catch of acceptRide, startRide and completeRide: a toast, nothing else.
HandlerCatch(d, o) ==
  /\ o.who = d
  /\ o.kind \in {"accept", "start", "complete"}
  /\ o.pc = "failed"
  /\ ops' = ops \ {o}
  /\ UNCHANGED <<rides, now, searches, phones, cust, drv, geo, timers, storage>>

completeRide(d, lim) ==
  /\ DriverCards(d)
  /\ Exists(drv[d].activeRide)
  /\ drv[d].activeRide.status = "started"
  /\ Room(d, lim)
  /\ SetDrv(d, [drv[d] EXCEPT !.isTracking = FALSE])
  /\ ops' = ops \cup {NewOp(d, "complete", drv[d].activeRide.id, "get",
                            CompleteUpdates(d), drv[d].activeRide)}
  /\ UNCHANGED <<rides, now, searches, phones, cust, geo, timers, storage>>

DriverReset(s) ==
  [s EXCEPT !.activeRide = Blank, !.mileage = 0, !.startLocation = NoneInt,
            !.isTracking = FALSE]

\* "Back to Ride List", shown on a completed ride.
driverResetRide(d) ==
  /\ DriverCards(d)
  /\ drv[d].activeRide.status = "completed"
  /\ SetDrv(d, DriverReset(drv[d]))
  /\ UNCHANGED <<rides, now, searches, phones, cust, ops, geo, timers, storage>>

\* Handing a ride back without detaching the driver.
CancelAcceptedKeepingDriver == [status |-> "pending"]

CancelAcceptedUpdates ==
  [status |-> "pending", driverId |-> NoneStr, driverName |-> NoneStr,
   driverPhoneNumber |-> NoneStr]

\* The button is shown on an accepted ride; the handler also lets a started
\* ride through.
cancelAcceptedRide(d, lim) ==
  /\ DriverCards(d)
  /\ Exists(drv[d].activeRide)
  /\ drv[d].activeRide.status = "accepted"
  /\ drv[d].activeRide.status \in {"accepted", "started"}
  /\ Room(d, lim)
  /\ SetDrv(d, [drv[d] EXCEPT !.isLoading = TRUE])
  /\ ops' = ops \cup {NewOp(d, "cancelAccepted", drv[d].activeRide.id, "exists",
                            CancelAcceptedUpdates, Blank)}
  /\ UNCHANGED <<rides, now, searches, phones, cust, geo, timers, storage>>

\* await get(rideRef): a missing record throws into the catch and finally.
cancelAcceptedGet(d, o) ==
  /\ o.who = d /\ o.kind = "cancelAccepted" /\ o.pc = "exists"
  /\ IF Exists(rides[o.rid])
       THEN /\ ops' = (ops \ {o}) \cup {[o EXCEPT !.pc = "update"]}
            /\ UNCHANGED drv
       ELSE /\ ops' = ops \ {o}
            /\ SetDrv(d, [drv[d] EXCEPT !.isLoading = FALSE])
  /\ UNCHANGED <<rides, now, searches, phones, cust, geo, timers, storage>>

\* await update(rideRef, updates): the store merges the named children into
\* the record as it is when the write lands.
cancelAcceptedUpdate(d, o) ==
  /\ o.who = d /\ o.kind = "cancelAccepted" /\ o.pc = "update"
  /\ rides' = [rides EXCEPT ![o.rid] = Spread(rides[o.rid], o.upd)]
  /\ ops' = (ops \ {o}) \cup {[o EXCEPT !.pc = "resume"]}
  /\ UNCHANGED <<now, searches, phones, cust, drv, geo, timers, storage>>

cancelAcceptedResume(d, o) ==
  /\ o.who = d /\ o.kind = "cancelAccepted" /\ o.pc = "resume"
  /\ SetDrv(d, [DriverReset(drv[d]) EXCEPT !.isLoading = FALSE])
  /\ ops' = ops \ {o}
  /\ UNCHANGED <<rides, now, searches, phones, cust, geo, timers, storage>>

\* updateDriverLocation: the request captures the effect's closure
\* (isTracking, startLocation, mileage, activeRide); the effect re-runs, and
\* asks again, whenever one of them changes, and every 5 seconds.
GeoClosure(d) ==
  [who |-> d, isTracking |-> drv[d].isTracking,
   startLocation |-> drv[d].startLocation, mileage |-> drv[d].mileage,
   rid |-> drv[d].activeRide.id]

updateDriverLocation(d) ==
  /\ Cardinality({g \in geo : g.who = d}) < MaxGeo
  /\ drv[d].fixes < MaxFixes
  /\ geo' = geo \cup {GeoClosure(d)}
  /\ UNCHANGED <<rides, now, searches, phones, cust, drv, ops, timers, storage>>

LocationUpdates(g, distance, newLocation) ==
  [calculatedMileage |-> g.mileage + distance, currentDriverLocation |-> newLocation]

\* The position callback, with the closure `g' it was created in.
GeoTracks(g) == g.isTracking /\ g.startLocation # NoneInt

positionCallback(d, g, newLocation, lim) ==
  /\ g \in geo /\ g.who = d
  /\ geo' = geo \ {g}
  /\ IF GeoTracks(g)
       THEN LET distance == calculateDistance(g.startLocation, newLocation) IN
            /\ drv[d].mileage + distance <= MaxMileage
            /\ SetDrv(d, [drv[d] EXCEPT !.currentLocation = newLocation,
                                        !.mileage = drv[d].mileage + distance,
                                        !.fixes = @ + 1])
            /\ IF g.rid # 0
                 THEN /\ Room(d, lim + 1)
                      /\ ops' = ops \cup {NewOp(d, "location", g.rid, "get",
                                   LocationUpdates(g, distance, newLocation), Blank)}
                 ELSE UNCHANGED ops
       ELSE /\ SetDrv(d, [drv[d] EXCEPT !.currentLocation = newLocation,
                                        !.fixes = @ + 1])
            /\ UNCHANGED ops
  /\ UNCHANGED <<rides, now, searches, phones, cust, timers, storage>>


\* ---------------------------------------------------- customer session
\* The cache-save effect runs after every change of activeRide to a ride;
\* `cleared' says that the handler removed the two entries itself.
SetCust(c, s, cleared) ==
  /\ cust' = [cust EXCEPT ![c] = s]
  /\ storage' = [storage EXCEPT ![c] =
       IF Exists(s.activeRide)
         THEN [activeRide |-> s.activeRide, currentRideId |-> s.activeRide.id]
         ELSE IF cleared THEN NoCache ELSE @]

\* The destination form is shown when there is no ride, or a finished one.
DestinationForm(c) ==
  /\ \/ ~Exists(cust[c].activeRide)
     \/ cust[c].activeRide.status \in {"completed", "cancelled"}
  /\ ~cust[c].isLoading

onSelectDestination(c, dest) ==
  /\ DestinationForm(c)
  /\ cust[c].selectedDestination = NoneInt
  /\ SetCust(c, [cust[c] EXCEPT !.selectedDestination = dest], FALSE)
  /\ UNCHANGED <<rides, now, searches, phones, drv, ops, geo, timers>>

\* What the price field may be given; prices are kept in hundredths.
PriceInputs == {"25.00", "40.5", "", "0", "-5"}

NaN == NoneInt

isNaN(x) == x = NaN

parseFloat(value) ==
  CASE value = "25.00" -> DefaultPrice
    [] value = "40.5" -> 4050
    [] value = "0" -> 0
    [] value = "-5" -> 0 - 500
    [] OTHER -> NaN

\* onChange of the price field keeps a positive number or the empty field.
setManualPrice(c, value) ==
  /\ DestinationForm(c)
  /\ IF parseFloat(value) > 0 \/ value = ""
       THEN SetCust(c, [cust[c] EXCEPT !.manualPrice = value], FALSE)
       ELSE UNCHANGED <<cust, storage>>
  /\ UNCHANGED <<rides, now, searches, phones, drv, ops, geo, timers>>

\* The customer's position becomes known.
customerLocated(c) ==
  /\ cust[c].currentLocation = NoneInt
  /\ SetCust(c, [cust[c] EXCEPT !.currentLocation = PickupOf(c)], FALSE)
  /\ UNCHANGED <<rides, now, searches, phones, drv, ops, geo, timers>>

\* The request is built from the state the handler was called in.
RideData(c) ==
  [customerId |-> c, pickupLocation |-> cust[c].currentLocation,
   destinationLocation |-> cust[c].selectedDestination,
   estimatedPrice |-> parseFloat(cust[c].manualPrice)]

\* Without a destination or a position the handler returns at once.
requestRide(c, lim) ==
  /\ DestinationForm(c)
  /\ Room(c, lim)
  /\ IF cust[c].selectedDestination = NoneInt \/ cust[c].currentLocation = NoneInt
       THEN UNCHANGED <<cust, ops, storage>>
       ELSE /\ SetCust(c, [cust[c] EXCEPT !.isLoading = TRUE], FALSE)
            /\ ops' = ops \cup {NewOp(c, "request", 0, "check", RideData(c), Blank)}
  /\ UNCHANGED <<rides, now, searches, phones, drv, geo, timers>>

\* Accepts any price.
AnyPrice(price) == TRUE

ValidPrice(price) == ~(isNaN(price) \/ price <= 0)

\* await checkCustomerActiveRide, then the price validation.
requestRideCheck(c, o) ==
  /\ o.who = c /\ o.kind = "request" /\ o.pc = "check"
  /\ IF Exists(checkCustomerActiveRide(c))
       THEN /\ SetCust(c, [cust[c] EXCEPT
                    !.activeRide = checkCustomerActiveRide(c),
                    !.currentRideId = checkCustomerActiveRide(c).id,
                    !.isLoading = FALSE], FALSE)
            /\ ops' = ops \ {o}
       ELSE IF ~ValidPrice(o.upd.estimatedPrice)
         THEN /\ SetCust(c, [cust[c] EXCEPT !.isLoading = FALSE], FALSE)
              /\ ops' = ops \ {o}
         ELSE /\ ops' = (ops \ {o}) \cup {[o EXCEPT !.pc = "create"]}
              /\ UNCHANGED <<cust, storage>>
  /\ UNCHANGED <<rides, now, searches, phones, drv, geo, timers>>

UnusedKeys == {k \in RideIds : ~Exists(rides[k])}

\* createRideRequest: push() names the record, set() writes it.  The round
\* trip takes at least a millisecond of the clock.
createRideRequestAsGiven(rideData) == Spread(Blank, rideData)

createRideRequest(rideData) ==
  Spread(Blank, rideData @@ [requestTime |-> <<"ms", now>>, status |-> "pending",
                            calculatedMileage |-> 0])

requestRideCreate(c, o, keyLimit) ==
  /\ o.who = c /\ o.kind = "request" /\ o.pc = "create"
  /\ UnusedKeys # {}
  /\ FirstKey(UnusedKeys) <= keyLimit
  /\ rides' = [rides EXCEPT ![FirstKey(UnusedKeys)] = createRideRequest(o.upd)]
  /\ now' = now + 1
  /\ ops' = (ops \ {o}) \cup {[o EXCEPT !.pc = "resume", !.rid = FirstKey(UnusedKeys)]}
  /\ UNCHANGED <<cust, drv, geo, timers, storage, searches, phones>>

NewRide(o) ==
  Spread(Blank, o.upd @@ [id |-> o.rid, requestTime |-> <<"iso", now>>,
                          status |-> "pending", calculatedMileage |-> 0])

requestRideResume(c, o) ==
  /\ o.who = c /\ o.kind = "request" /\ o.pc = "resume"
  /\ SetCust(c, [cust[c] EXCEPT !.currentRideId = o.rid, !.activeRide = NewRide(o),
                                !.isLoading = FALSE], FALSE)
  /\ ops' = ops \ {o}
  /\ UNCHANGED <<rides, now, searches, phones, drv, geo, timers>>

CustomerReset(s) ==
  [s EXCEPT !.selectedDestination = NoneInt, !.currentRideId = 0,
            !.activeRide = Blank]

\* "Start New Trip", shown on a completed ride.
resetRide(c) ==
  /\ cust[c].activeRide.status = "completed"
  /\ SetCust(c, CustomerReset(cust[c]), TRUE)
  /\ UNCHANGED <<rides, now, searches, phones, drv, ops, geo, timers>>

\* The cancel button is shown on a pending ride and disabled while a cancel
\* is in flight.
handleCancelRide(c, lim) ==
  /\ Exists(cust[c].activeRide)
  /\ cust[c].activeRide.id # 0
  /\ cust[c].activeRide.status = "pending"
  /\ ~cust[c].cancellingRide
  /\ Room(c, lim)
  /\ SetCust(c, [cust[c] EXCEPT !.cancellingRide = TRUE], FALSE)
  /\ ops' = ops \cup {NewOp(c, "cancel", cust[c].activeRide.id, "check", NoUpd, Blank)}
  /\ UNCHANGED <<rides, now, searches, phones, drv, geo, timers>>

Cancellable(status) == status \in {"pending", "accepted"}

CancelUpdates == [status |-> "cancelled", cancelTime |-> now]

\* cancelRide: await get, check the status, then call updateRideRequest; a
\* throw lands in handleCancelRide's catch and finally.
cancelRideCheck(c, o) ==
  /\ o.who = c /\ o.kind = "cancel" /\ o.pc = "check"
  /\ IF Exists(rides[o.rid]) /\ Cancellable(rides[o.rid].status)
       THEN /\ ops' = (ops \ {o}) \cup {[o EXCEPT !.pc = "get", !.upd = CancelUpdates]}
            /\ UNCHANGED <<cust, storage>>
       ELSE /\ ops' = ops \ {o}
            /\ SetCust(c, [cust[c] EXCEPT !.cancellingRide = FALSE], FALSE)
  /\ UNCHANGED <<rides, now, searches, phones, drv, geo, timers>>

\* catch and finally of handleCancelRide.
handleCancelRideCatch(c, o) ==
  /\ o.who = c /\ o.kind = "cancel" /\ o.pc = "failed"
  /\ SetCust(c, [cust[c] EXCEPT !.cancellingRide = FALSE], FALSE)
  /\ ops' = ops \ {o}
  /\ UNCHANGED <<rides, now, searches, phones, drv, geo, timers>>

handleCancelRideResume(c, o) ==
  /\ o.who = c /\ o.kind = "cancel" /\ o.pc = "resume"
  /\ SetCust(c, [cust[c] EXCEPT !.activeRide = Blank, !.currentRideId = 0,
                                !.selectedDestination = NoneInt,
                                !.cancellingRide = FALSE], FALSE)
  /\ ops' = ops \ {o}
  /\ UNCHANGED <<rides, now, searches, phones, drv, geo, timers>>

\* The cache-load effect's test left out.
AnyCustomer(parsedRide, customerId) == TRUE

\* parsedRide.customerId === customerId
SameCustomer(parsedRide, customerId) == parsedRide.customerId = customerId

\* The interface of customer c is opened, or reloaded, in browser b: state
\* starts afresh, calls and timers of the page that was there are gone, the
\* load effect restores the cached ride and the save effect writes it back.
customerMount(c, b) ==
  LET savedRide == storage[b].activeRide
      savedRideId == storage[b].currentRideId
      fresh == [InitCust EXCEPT !.currentLocation = NoneInt]
      restored == /\ Exists(savedRide) /\ savedRideId # 0
                  /\ SameCustomer(savedRide, c)
  IN  /\ cust' = [cust EXCEPT ![c] =
                    IF restored
                      THEN [fresh EXCEPT !.activeRide = savedRide,
                                         !.currentRideId = savedRideId]
                      ELSE fresh]
      /\ storage' = [storage EXCEPT ![b] =
                       IF restored
                         THEN [activeRide |-> savedRide, currentRideId |-> savedRide.id]
                         ELSE @]
      /\ ops' = {o \in ops : o.who # c}
      /\ timers' = {t \in timers : t.who # c}
      /\ UNCHANGED <<rides, now, searches, phones, drv, geo>>

\* ------------------------------------------ the customer's reconciliation
RECURSIVE CustomerRidesFrom(_, _, _)
CustomerRidesFrom(db, c, k) ==
  IF k > MaxRides THEN <<>>
  ELSE (IF db[k].customerId = c THEN <<WithId(db[k], k)>> ELSE <<>>)
       \o CustomerRidesFrom(db, c, k + 1)

\* Array.prototype.sort is stable: an element goes after those that do not
\* compare greater.
RECURSIVE InsertNewestFirst(_, _)
InsertNewestFirst(x, s) ==
  IF s = <<>> THEN <<x>>
  ELSE IF TimeOf(Head(s).requestTime) >= TimeOf(x.requestTime)
    THEN <<Head(s)>> \o InsertNewestFirst(x, Tail(s))
    ELSE <<x>> \o s

RECURSIVE SortNewestFirst(_, _)
SortNewestFirst(s, acc) ==
  IF s = <<>> THEN acc ELSE SortNewestFirst(Tail(s), InsertNewestFirst(Head(s), acc))

\* What listenToAllCustomerRides hands to its callback.
listenToAllCustomerRides(db, c) == SortNewestFirst(CustomerRidesFrom(db, c, 1), <<>>)

IsActive(ride) == ride.status \in ActiveStatuses

fiveMinutesAgo(t) == t - (5 * 60 * 1000)

\* Completed, however long ago.
IsCompleted(ride, t) == ride.status = "completed"

IsRecentlyCompleted(ride, t) ==
  ride.status = "completed" /\ ride.endTime # NoneInt /\ ride.endTime # 0
    /\ ride.endTime > fiveMinutesAgo(t)

RECURSIVE InsertLatestEnd(_, _)
InsertLatestEnd(x, s) ==
  IF s = <<>> THEN <<x>>
  ELSE IF Head(s).endTime >= x.endTime
    THEN <<Head(s)>> \o InsertLatestEnd(x, Tail(s))
    ELSE <<x>> \o s

RECURSIVE SortLatestEnd(_, _)
SortLatestEnd(s, acc) ==
  IF s = <<>> THEN acc ELSE SortLatestEnd(Tail(s), InsertLatestEnd(Head(s), acc))

\* The list as delivered, unfiltered.
anyRides(list) == list

activeRides(list) == SelectSeq(list, IsActive)

recentlyCompletedRides(list, t) ==
  SortLatestEnd(SelectSeq(list, LAMBDA r : IsRecentlyCompleted(r, t)), <<>>)

GraceDelay == 5000

\* The callback of listenToAllCustomerRides, on the current content of the
\* store.
CustomerRidesSnapshot(c) ==
  LET list == listenToAllCustomerRides(rides, c) IN
  /\ IF list = <<>>
       THEN /\ SetCust(c, CustomerReset(cust[c]), TRUE)
            /\ UNCHANGED timers
       ELSE IF activeRides(list) # <<>>
         THEN /\ SetCust(c, [cust[c] EXCEPT
                      !.activeRide = activeRides(list)[1],
                      !.currentRideId = activeRides(list)[1].id], FALSE)
              /\ UNCHANGED timers
         ELSE IF recentlyCompletedRides(list, now) # <<>>
           THEN /\ SetCust(c, [cust[c] EXCEPT
                        !.activeRide = recentlyCompletedRides(list, now)[1],
                        !.currentRideId = recentlyCompletedRides(list, now)[1].id],
                      FALSE)
                /\ timers' = timers \cup {[who |-> c, due |-> now + GraceDelay]}
           ELSE /\ SetCust(c, CustomerReset(cust[c]), TRUE)
                /\ UNCHANGED timers
  /\ UNCHANGED <<rides, now, searches, phones, drv, ops, geo>>

\* The setTimeout callback: resetRide().
graceTimeout(c, t) ==
  /\ t \in timers /\ t.who = c
  /\ now >= t.due
  /\ timers' = timers \ {t}
  /\ SetCust(c, CustomerReset(cust[c]), TRUE)
  /\ UNCHANGED <<rides, now, searches, phones, drv, ops, geo>>


\* The clock advances by the granularity of the grace timer.
Tick ==
  /\ now + GraceDelay <= StartOfTime + MaxTicks * GraceDelay
  /\ now' = now + GraceDelay
  /\ UNCHANGED <<rides, cust, drv, ops, geo, timers, storage, searches, phones>>

\* A bare updateRideRequest(rideId, updates) by caller w, one per caller:
\* its operation stays, resumed, once the write has landed.
updateRideRequest(w, rideId, updates) ==
  /\ Room(w, 1)
  /\ ops' = ops \cup {NewOp(w, "call", rideId, "get", updates, Blank)}
  /\ UNCHANGED <<rides, now, searches, phones, cust, drv, geo, timers, storage>>

\* ------------------------------------------------------ specifications
GatewayStep(W) ==
  \E o \in ops :
    /\ o.who \in W
    /\ \/ updateRideRequestGet(o)
       \/ updateRideRequestSet(o)

CustomerStep(c, keyLimit, lim) ==
  \/ \E dest \in Destinations : onSelectDestination(c, dest)
  \/ requestRide(c, lim)
  \/ \E o \in ops : requestRideCheck(c, o)
  \/ \E o \in ops : requestRideCreate(c, o, keyLimit)
  \/ \E o \in ops : requestRideResume(c, o)
  \/ handleCancelRide(c, lim)
  \/ \E o \in ops : cancelRideCheck(c, o)
  \/ \E o \in ops : handleCancelRideResume(c, o)

ListenerStep(c) ==
  \/ CustomerRidesSnapshot(c)
  \/ \E t \in timers : graceTimeout(c, t)
  \/ resetRide(c)

AcceptStep(d, lim) ==
  \/ handlePhoneSubmit(d)
  \/ DriverPendingSnapshot(d)
  \/ DriverActiveSnapshot(d)
  \/ \E ride \in drv[d].pendingRides : acceptRide(d, ride, lim)
  \/ \E o \in ops : HandlerResume(d, o)

DriverStep(d, lim) ==
  \/ startRide(d, lim)
  \/ completeRide(d, lim)
  \/ driverResetRide(d)
  \/ cancelAcceptedRide(d, lim)
  \/ \E o \in ops : cancelAcceptedGet(d, o)
  \/ \E o \in ops : cancelAcceptedUpdate(d, o)
  \/ \E o \in ops : cancelAcceptedResume(d, o)

TrackingStep(d, lim) ==
  \/ updateDriverLocation(d)
  \/ \E g \in geo : \E newLocation \in Locs : positionCallback(d, g, newLocation, lim)

\* The life of one ride: customer c1 requests and may cancel, driver d1
\* accepts, starts, tracks, completes or hands the ride back.  The customer's
\* listener is left out here: with a single ride it only narrows when the
\* cancel button is shown, and every write the customer can issue with it
\* is issued without it.
Next ==
  \/ CustomerStep("c1", 1, MaxInflight)
  \/ AcceptStep("d1", MaxInflight)
  \/ DriverStep("d1", MaxInflight)
  \/ TrackingStep("d1", MaxInflight)
  \/ GatewayStep({"c1", "d1"})

Spec == Init /\ [][Next]_vars

\* Two customers and a driver with no position yet, MaxRides rides, up to
\* two accepts of the driver in flight.
NextMulti ==
  \/ \E c \in Customers : CustomerStep(c, MaxRides, MaxInflight)
  \/ AcceptStep("d1", MaxInflight + 1)
  \/ GatewayStep(Customers \cup {"d1"})

SpecMulti == Init /\ [][NextMulti]_vars

\* --------------------------------------------- reconciliation on its own
\* A record of customer c as the lifecycle leaves it in a given status.
RideAt(c, status, requested, ended) ==
  [ Blank EXCEPT
      !.customerId = c, !.requestTime = <<"ms", requested>>,
      !.pickupLocation = PickupOf(c), !.destinationLocation = MaxPos,
      !.estimatedPrice = DefaultPrice, !.status = status,
      !.calculatedMileage = 0,
      !.driverId = IF status \in {"accepted", "started", "completed"}
                     THEN "d1" ELSE NoneStr,
      !.driverName = IF status \in {"accepted", "started", "completed"}
                       THEN DriverNameOf("d1") ELSE NoneStr,
      !.driverPhoneNumber = IF status \in {"accepted", "started", "completed"}
                              THEN DriverPhoneOf("d1") ELSE NoneStr,
      !.startTime = IF status \in {"started", "completed"}
                      THEN requested + 1 ELSE NoneInt,
      !.startTripLocation = IF status \in {"started", "completed"}
                              THEN PickupOf(c) ELSE NoneInt,
      !.endTime = IF status = "completed" THEN ended ELSE NoneInt,
      !.cancelTime = IF status = "cancelled" THEN requested + 1 ELSE NoneInt ]

Statuses == {"pending", "accepted", "started", "completed", "cancelled"}

\* Request times some minutes back; end times older than, recent at the
\* start and 5 minutes old after one step of the clock, and recent.
RequestTimes == {StartOfTime - 9 * 60 * 1000, StartOfTime - 8 * 60 * 1000}
EndTimes ==
  {StartOfTime - 6 * 60 * 1000, StartOfTime - (5 * 60 * 1000) + GraceDelay,
   StartOfTime - 60 * 1000}

SampleRides ==
  {RideAt("c1", st, rq, NoneInt) :
     st \in Statuses \ {"completed"}, rq \in RequestTimes}
  \cup {RideAt("c1", "completed", rq, en) : rq \in RequestTimes, en \in EndTimes}
  \cup {RideAt("c2", "pending", StartOfTime - 7 * 60 * 1000, NoneInt)}

InitReconcile ==
  /\ rides \in [RideIds -> SampleRides]
  /\ now = StartOfTime
  /\ cust = [c \in Customers |-> InitCust]
  /\ drv = [d \in Drivers |-> InitDrv]
  /\ ops = {}
  /\ geo = {}
  /\ timers = {}
  /\ searches = NoSearches
  /\ phones = NoPhones
  /\ storage = [c \in Customers |-> NoCache]

NextReconcile ==
  \/ ListenerStep("c1")
  \/ Tick

SpecReconcile == InitReconcile /\ [][NextReconcile]_vars

\* The event loop runs the callback of a timer that is due.
SpecReconcileLive ==
  SpecReconcile /\ WF_vars(\E t \in timers : graceTimeout("c1", t))

\* ------------------------------------------------ the gateway on its own
\* Partial updates: the ones the handlers issue and others over the same
\* fields, by a second driver.
Partials ==
  { [status |-> "accepted", driverId |-> "d2", driverName |-> DriverNameOf("d2"),
     driverPhoneNumber |-> DriverPhoneOf("d2")],
    [status |-> "started", startTime |-> StartOfTime, startTripLocation |-> 1,
     calculatedMileage |-> 0],
    [calculatedMileage |-> 10, currentDriverLocation |-> 1],
    [calculatedMileage |-> 20, currentDriverLocation |-> 2],
    [status |-> "completed", endTime |-> StartOfTime, calculatedMileage |-> 10],
    [status |-> "cancelled", cancelTime |-> StartOfTime],
    [status |-> "pending", driverId |-> NoneStr, driverName |-> NoneStr,
     driverPhoneNumber |-> NoneStr],
    [estimatedPrice |-> 1],
    [pickupLocation |-> 2, destinationLocation |-> 0] }

InitGateway ==
  /\ \E r \in SampleRides :
       rides = [k \in RideIds |-> IF k = 1 THEN r ELSE Blank]
  /\ now = StartOfTime
  /\ cust = [c \in Customers |-> InitCust]
  /\ drv = [d \in Drivers |-> InitDrv]
  /\ ops = {}
  /\ geo = {}
  /\ timers = {}
  /\ searches = NoSearches
  /\ phones = NoPhones
  /\ storage = [c \in Customers |-> NoCache]

NextGateway ==
  \/ \E w \in Drivers : \E p \in Partials : updateRideRequest(w, 1, p)
  \/ GatewayStep(Drivers)

SpecGateway == InitGateway /\ [][NextGateway]_vars

\* ------------------------------------------------- requesting on its own
\* One customer whose position is not known yet, in front of a store that
\* may already hold a ride.
InitRequest ==
  /\ \E r \in SampleRides \cup {Blank} :
       rides = [k \in RideIds |-> IF k = MaxRides THEN r ELSE Blank]
  /\ now = StartOfTime
  /\ cust = [c \in Customers |-> [InitCust EXCEPT !.currentLocation = NoneInt]]
  /\ drv = [d \in Drivers |-> InitDrv]
  /\ ops = {}
  /\ geo = {}
  /\ timers = {}
  /\ searches = NoSearches
  /\ phones = NoPhones
  /\ storage = [c \in Customers |-> NoCache]

NextRequest ==
  \/ CustomerStep("c1", 1, MaxInflight)
  \/ \E value \in PriceInputs : setManualPrice("c1", value)
  \/ customerLocated("c1")
  \/ GatewayStep({"c1"})

SpecRequest == InitRequest /\ [][NextRequest]_vars

\* ---------------------------------------------------- writes that fail
FailStep(c, d) ==
  \/ \E o \in ops : updateRideRequestReject(o)
  \/ \E o \in ops : HandlerCatch(d, o)
  \/ \E o \in ops : handleCancelRideCatch(c, o)

\* One ride, a driver whose position is known and does not change, and
\* writes that may fail.
InitFail ==
  /\ rides = [k \in RideIds |-> Blank]
  /\ now = StartOfTime
  /\ cust = [c \in Customers |-> InitCust]
  /\ drv = [d \in Drivers |-> [InitDrv EXCEPT !.currentLocation = 0]]
  /\ ops = {}
  /\ geo = {}
  /\ timers = {}
  /\ searches = NoSearches
  /\ phones = NoPhones
  /\ storage = [c \in Customers |-> NoCache]

NextFail ==
  \/ CustomerStep("c1", 1, MaxInflight)
  \/ AcceptStep("d1", MaxInflight)
  \/ DriverStep("d1", MaxInflight)
  \/ GatewayStep({"c1", "d1"})
  \/ FailStep("c1", "d1")

SpecFail == InitFail /\ [][NextFail]_vars

\* ------------------------------------------- the customer's local cache
\* The customer's whole session: the form, the handlers, the listener, the
\* grace timer and the clock, over one earlier ride and one new one.
NextCache ==
  \/ NextRequest
  \/ ListenerStep("c1")
  \/ Tick

SpecCache == InitRequest /\ [][NextCache]_vars

\* ------------------------------------------------------ recent searches
\* PlaceResult: what a search returns; the place of id 1 is also returned
\* under another name.
Places ==
  [id : 1..MaxPlaces, name : {"found"}] \cup {[id |-> 1, name |-> "renamed"]}

RecentLimit == 5

\* Array.prototype.findIndex, 1-based; NoneInt when there is none.
findIndex(s, id) ==
  IF \E k \in 1..Len(s) : s[k].id = id
    THEN CHOOSE k \in 1..Len(s) :
           /\ s[k].id = id
           /\ \A j \in 1..(k - 1) : s[j].id # id
    ELSE NoneInt

SpliceNothing(s, k) == s

\* Array.prototype.splice(k, 1)
Splice(s, k) == SubSeq(s, 1, k - 1) \o SubSeq(s, k + 1, Len(s))

\* saveRecentSearch(place): read the stored list (none, or one that does
\* not parse: empty), drop the entry of the same id, put the place first,
\* keep five, store.
saveRecentSearch(place) ==
  LET recentPlaces == searches.stored
      existingIndex == findIndex(recentPlaces, place.id)
      spliced == IF existingIndex # NoneInt
                   THEN Splice(recentPlaces, existingIndex)
                   ELSE recentPlaces
      unshifted == <<place>> \o spliced
      kept == IF Len(unshifted) > RecentLimit
                THEN SubSeq(unshifted, 1, RecentLimit)
                ELSE unshifted
  IN  /\ Len(searches.saved) < MaxSaves
      /\ searches' = [stored |-> kept, saved |-> Append(searches.saved, place)]
      /\ UNCHANGED <<rides, now, cust, drv, ops, geo, timers, storage, phones>>

NextSearch == \E place \in Places : saveRecentSearch(place)

SpecSearch == Init /\ [][NextSearch]_vars

\* ------------------------------------------------- two drivers, one ride
\* One customer and both drivers, each with the list of pending requests.
NextRace ==
  \/ CustomerStep("c1", 1, MaxInflight)
  \/ \E d \in Drivers : AcceptStep(d, MaxInflight)
  \/ GatewayStep({"c1"} \cup Drivers)

SpecRace == Init /\ [][NextRace]_vars

\* ------------------------------------------------------ a trip, tracked
\* Driver d1 holds ride 1, accepted, and is at the pickup; the positions
\* delivered from here on are all samples of the trip.
AcceptedRide ==
  [RideAt("c1", "pending", StartOfTime - 60 * 1000, NoneInt) EXCEPT
     !.status = "accepted", !.driverId = "d1",
     !.driverName = DriverNameOf("d1"),
     !.driverPhoneNumber = DriverPhoneOf("d1")]

InitTrack ==
  /\ rides = [k \in RideIds |-> IF k = 1 THEN AcceptedRide ELSE Blank]
  /\ now = StartOfTime
  /\ cust = [c \in Customers |-> InitCust]
  /\ drv = [d \in Drivers |->
              IF d = "d1"
                THEN [InitDrv EXCEPT !.hasPhoneNumber = TRUE,
                                     !.userPhoneNumber = DriverPhoneOf("d1"),
                                     !.activeRide = WithId(AcceptedRide, 1),
                                     !.currentLocation = PickupOf("c1")]
                ELSE InitDrv]
  /\ ops = {}
  /\ geo = {}
  /\ timers = {}
  /\ searches = NoSearches
  /\ phones = NoPhones
  /\ storage = [c \in Customers |-> NoCache]

NextTrack ==
  \/ startRide("d1", MaxInflight)
  \/ completeRide("d1", MaxInflight)
  \/ \E o \in ops : HandlerResume("d1", o)
  \/ DriverActiveSnapshot("d1")
  \/ TrackingStep("d1", MaxInflight)
  \/ GatewayStep({"d1"})

SpecTrack == InitTrack /\ [][NextTrack]_vars

\* ----------------------------------------------------- phone numbers
\* Drivers opening the app in either browser and submitting their number.
NextPhone ==
  \/ \E d \in Drivers, b \in Browsers, stored \in BOOLEAN :
       handlePhoneSubmitIn(d, b, stored)
  \/ \E d \in Drivers, b \in Browsers : checkPhoneNumber(d, b)

SpecPhone == Init /\ [][NextPhone]_vars

\* --------------------------------------------------- the cache at startup
\* Customer c1 uses a browser, reloads it, and customer c2 opens the
\* interface in that same browser.
NextLoad ==
  \/ NextCache
  \/ \E c \in Customers : customerMount(c, "c1")

SpecLoad == InitRequest /\ [][NextLoad]_vars

\* ================================================================ claims

\* C1: a ride's status only ever moves forward along pending -> accepted ->
\* started -> completed, or to cancelled from pending or accepted; it never
\* moves backward and never leaves completed or cancelled.
C1_StatusMovesForward ==
  [][\A k \in RideIds :
       (Exists(rides[k]) /\ rides'[k].status # rides[k].status) =>
         <<rides[k].status, rides'[k].status>> \in
           { <<"pending", "accepted">>, <<"pending", "started">>,
             <<"pending", "completed">>, <<"accepted", "started">>,
             <<"accepted", "completed">>, <<"started", "completed">>,
             <<"pending", "cancelled">>, <<"accepted", "cancelled">> }]_vars

\* C2: a record becomes cancelled by cancelRide only from pending or
\* accepted, also when the cancel races with a start or a completion;
\* a started or completed record is left as it is.
C2_CancelOnlyFromPendingOrAccepted ==
  [][\A k \in RideIds :
       (Exists(rides[k]) /\ rides[k].status # "cancelled"
          /\ rides'[k].status = "cancelled") =>
         rides[k].status \in {"pending", "accepted"}]_vars

\* C3: startRide issues its write, and turns tracking on, only when the
\* driver's position is within PICKUP_PROXIMITY_THRESHOLD of the pickup
\* point; farther away neither the record nor the tracking state changes,
\* so every start in flight and every recorded start point is within the
\* threshold of the pickup point.
C3_StartOnlyNearPickup ==
  /\ [](\A o \in ops :
          o.kind = "start" =>
            calculateDistance(o.upd.startTripLocation, o.cap.pickupLocation)
              <= PICKUP_PROXIMITY_THRESHOLD)
  /\ [](\A k \in RideIds :
          rides[k].startTripLocation # NoneInt =>
            calculateDistance(rides[k].startTripLocation, rides[k].pickupLocation)
              <= PICKUP_PROXIMITY_THRESHOLD)
  /\ [][\A d \in Drivers :
          ( \/ /\ \E o \in ops' : o.who = d /\ o.kind = "start"
               /\ ~\E o \in ops : o.who = d /\ o.kind = "start"
            \/ drv'[d].isTracking /\ ~drv[d].isTracking
            \/ drv'[d].startLocation # drv[d].startLocation
                 /\ drv'[d].startLocation # NoneInt ) =>
            /\ drv[d].activeRide.status = "accepted"
            /\ calculateDistance(drv[d].currentLocation,
                                 drv[d].activeRide.pickupLocation)
                 <= PICKUP_PROXIMITY_THRESHOLD]_vars

\* A ride started from the farthest point that is still near enough.
C3_StartedAtThreshold ==
  \E k \in RideIds :
    /\ rides[k].status = "started"
    /\ calculateDistance(rides[k].startTripLocation, rides[k].pickupLocation)
         = PICKUP_PROXIMITY_THRESHOLD

\* C4: while a record is started its calculatedMileage never decreases,
\* and once it is completed calculatedMileage never changes again.
C4_MileageGrowsThenFreezes ==
  [][\A k \in RideIds :
       /\ (rides[k].status = "started" /\ rides'[k].status = "started") =>
            rides'[k].calculatedMileage >= rides[k].calculatedMileage
       /\ rides[k].status = "completed" =>
            rides'[k].calculatedMileage = rides[k].calculatedMileage]_vars

\* C5 as stated: a record that has a driverId has status accepted, started
\* or completed.
C5_DriverIdMeansEngaged ==
  \A k \in RideIds :
    (Exists(rides[k]) /\ rides[k].driverId # NoneStr) =>
      rides[k].status \in {"accepted", "started", "completed"}

\* C5, amended: a pending record has no driverId, driverName or
\* driverPhoneNumber; a record that has a driverId has status accepted,
\* started, completed or cancelled.
C5_PendingHasNoDriver ==
  \A k \in RideIds :
    (Exists(rides[k]) /\ rides[k].status = "pending") =>
      /\ rides[k].driverId = NoneStr
      /\ rides[k].driverName = NoneStr
      /\ rides[k].driverPhoneNumber = NoneStr

\* The driver handed an accepted ride back and it is pending again.
C5_HandedBack ==
  \E o \in ops :
    /\ o.kind = "cancelAccepted" /\ o.pc = "resume"
    /\ rides[o.rid].status = "pending"

\* C6: at any moment at most one record with status pending, accepted or
\* started exists for a given customerId.
C6_OneActiveRidePerCustomer ==
  \A c \in Customers : Cardinality(CustomerActiveKeys(c)) <= 1

\* C7: at any moment at most one record with status accepted or started
\* exists for a given driverId, also while an accept is still in flight.
C7_OneRidePerDriver ==
  \A d \in Drivers : Cardinality(DriverActiveKeys(d)) <= 1

\* C8: when exactly one of a customer's records is pending, accepted or
\* started, the listener's callback adopts that record as activeRide and
\* its id as currentRideId, whatever finished rides the customer has and
\* wherever they stand in the list.
C8_AdoptsTheActiveRide ==
  [][\A c \in Customers : \A k \in RideIds :
       (CustomerRidesSnapshot(c) /\ CustomerActiveKeys(c) = {k}) =>
         /\ cust'[c].activeRide = WithId(rides[k], k)
         /\ cust'[c].currentRideId = k]_vars

\* The session shows its one active ride although a finished ride of the
\* same customer was requested later and heads the list.
C8_ActiveBehindFinished ==
  \E k \in RideIds : \E j \in RideIds :
    /\ CustomerActiveKeys("c1") = {k}
    /\ rides[j].customerId = "c1"
    /\ rides[j].status \in {"completed", "cancelled"}
    /\ TimeOf(rides[j].requestTime) > TimeOf(rides[k].requestTime)
    /\ cust["c1"].activeRide = WithId(rides[k], k)
    /\ cust["c1"].currentRideId = k

\* C9: with no active record, the callback adopts a completed record only
\* if its endTime is less than 5 minutes back, the one with the latest
\* endTime when there are several, and arms a timer of GraceDelay; with none
\* it clears the session.  The timer runs once it is due, and no sooner,
\* and clears the session without another snapshot.
C9_RecentlyCompletedThenCleared ==
  /\ [][\A c \in Customers :
          (CustomerRidesSnapshot(c) /\ CustomerActiveKeys(c) = {}) =>
            LET recent == {k \in RideIds :
                             /\ rides[k].customerId = c
                             /\ rides[k].status = "completed"
                             /\ now - rides[k].endTime < 5 * 60 * 1000}
            IN  IF recent = {}
                  THEN /\ cust'[c].activeRide = Blank
                       /\ cust'[c].currentRideId = 0
                       /\ timers' = timers
                  ELSE /\ cust'[c].currentRideId \in recent
                       /\ cust'[c].activeRide =
                            WithId(rides[cust'[c].currentRideId],
                                   cust'[c].currentRideId)
                       /\ \A j \in recent :
                            rides[j].endTime <= cust'[c].activeRide.endTime
                       /\ timers' =
                            timers \cup {[who |-> c, due |-> now + GraceDelay]}]_vars
  /\ \A t \in [who : {"c1"},
                 due : {StartOfTime + i * GraceDelay : i \in 1..(MaxTicks + 1)}] :
       (t \in timers /\ now >= t.due) ~> (t \notin timers)
  /\ [][\A t \in timers :
          t \notin timers' =>
            /\ now >= t.due
            /\ rides' = rides
            /\ cust'[t.who].activeRide = Blank
            /\ cust'[t.who].currentRideId = 0]_vars

\* The session shows the later of two recently completed rides and the
\* timer that will clear it is pending.
C9_ShowsLatestCompleted ==
  \E k \in RideIds : \E j \in RideIds :
    /\ rides[k].customerId = "c1" /\ rides[k].status = "completed"
    /\ rides[j].customerId = "c1" /\ rides[j].status = "completed"
    /\ now - rides[j].endTime < 5 * 60 * 1000
    /\ rides[k].endTime > rides[j].endTime
    /\ cust["c1"].activeRide = WithId(rides[k], k)
    /\ \E t \in timers : t.who = "c1" /\ t.due > now

\* C10: updateRideRequest(rideId, p) on an existing record r that nothing
\* else writes between its read and its write leaves a record that has
\* p's value in every field p names and r's value in every other field.
C10_MergeRoundTrip ==
  [][\A o \in ops :
       ( /\ updateRideRequestSet(o)
         /\ Exists(rides[o.rid])
         /\ o.snap = rides[o.rid] ) =>
         \A f \in Fields :
           rides'[o.rid][f] =
             IF f \in DOMAIN o.upd THEN o.upd[f] ELSE rides[o.rid][f]]_vars

\* An update of some fields has landed on a record that had other fields
\* set, and the record read back differs from the one it was issued on.
C10_Merged ==
  \E o \in ops :
    /\ o.kind = "call" /\ o.pc = "resume"
    /\ Exists(o.snap)
    /\ rides[o.rid] # o.snap
    /\ \E f \in Fields : f \notin DOMAIN o.upd /\ o.snap[f] # Blank[f]
    /\ \A f \in Fields :
         rides[o.rid][f] = IF f \in DOMAIN o.upd THEN o.upd[f] ELSE o.snap[f]

\* C11: a step that applies a lifecycle transition changes only that
\* transition's fields of the record: accept only status and the three
\* driver fields; start only status, startTime, startTripLocation and
\* calculatedMileage; complete only status and endTime; customer cancel only
\* status and cancelTime.
C11_TransitionsKeepOtherFields ==
  [][\A k \in RideIds :
       LET from == rides[k].status
           to == rides'[k].status
           Same(changed) == \A f \in Fields \ changed : rides'[k][f] = rides[k][f]
       IN  /\ (from = "pending" /\ to = "accepted") =>
                Same({"status", "driverId", "driverName", "driverPhoneNumber"})
           /\ (from = "accepted" /\ to = "started") =>
                Same({"status", "startTime", "startTripLocation", "calculatedMileage"})
           /\ (from = "started" /\ to = "completed") =>
                Same({"status", "endTime"})
           /\ (from \in {"pending", "accepted"} /\ to = "cancelled") =>
                Same({"status", "cancelTime"})]_vars

\* C12: a record that is pending, accepted or cancelled has calculatedMileage
\* 0; only started and completed records have any other value.
C12_MileageOnlyOnTrips ==
  \A k \in RideIds :
    (Exists(rides[k]) /\ rides[k].status \in {"pending", "accepted", "cancelled"}) =>
      rides[k].calculatedMileage = 0

\* C13: startTime, endTime and cancelTime of a record are each written at
\* most once, and only by the write that makes the record started,
\* completed and cancelled respectively.
C13_TimesWrittenOnce ==
  [][\A k \in RideIds :
       Exists(rides[k]) =>
         /\ rides'[k].startTime # rides[k].startTime =>
              /\ rides[k].startTime = NoneInt
              /\ rides[k].status = "accepted" /\ rides'[k].status = "started"
         /\ rides'[k].endTime # rides[k].endTime =>
              /\ rides[k].endTime = NoneInt
              /\ rides[k].status = "started" /\ rides'[k].status = "completed"
         /\ rides'[k].cancelTime # rides[k].cancelTime =>
              /\ rides[k].cancelTime = NoneInt
              /\ rides[k].status \in {"pending", "accepted"}
              /\ rides'[k].status = "cancelled"]_vars

\* C14: requestRide goes on to its create only with a destination, a known
\* position, a price that parses to a positive number and no active ride of
\* the customer in the store; an attempt that lacks one of them ends without
\* a create and leaves the records as they are.
C14_NoCreateOnInvalidRequest ==
  [][\A c \in Customers :
       LET Pending(S, pc) == {o \in S : o.who = c /\ o.kind = "request" /\ o.pc = pc}
           Requests(S) == {o \in S : o.who = c /\ o.kind = "request"}
       IN  /\ (Requests(ops) = {} /\ Requests(ops') # {}) =>
                /\ cust[c].selectedDestination # NoneInt
                /\ cust[c].currentLocation # NoneInt
           /\ (Pending(ops, "create") = {} /\ Pending(ops', "create") # {}) =>
                /\ CustomerActiveKeys(c) = {}
                /\ \A o \in Pending(ops', "create") :
                     /\ o.upd.destinationLocation # NoneInt
                     /\ o.upd.pickupLocation # NoneInt
                     /\ o.upd.estimatedPrice # NaN
                     /\ o.upd.estimatedPrice > 0
           /\ \A k \in RideIds :
                (~Exists(rides[k]) /\ Exists(rides'[k]) /\ rides'[k].customerId = c) =>
                  /\ Pending(ops, "create") # {}
                  /\ rides'[k].destinationLocation # NoneInt
                  /\ rides'[k].pickupLocation # NoneInt
                  /\ rides'[k].estimatedPrice > 0
           /\ (Pending(ops, "check") # {} /\ Requests(ops') = {}) =>
                rides' = rides]_vars

\* A request with an empty price field is at its validation.
C14_EmptyPriceAtValidation ==
  \E o \in ops :
    /\ o.kind = "request" /\ o.pc = "check"
    /\ isNaN(o.upd.estimatedPrice)
    /\ CustomerActiveKeys(o.who) = {}

\* C15: when the write of accept, start, complete or cancel fails, the
\* record is unchanged and, once the handler has caught the failure, the
\* session's isTracking, startLocation and mileage are what they were when
\* the handler was called and its active ride is untouched.
C15_FailedWriteChangesNothing ==
  [][\A o \in ops :
       /\ (o.pc \in {"get", "set"} /\ [o EXCEPT !.pc = "failed"] \in ops' \ ops) =>
            rides' = rides
       /\ (o.pc = "failed" /\ o \notin ops') =>
            /\ rides' = rides
            /\ o.who \in Customers =>
                 cust'[o.who].activeRide = cust[o.who].activeRide
            /\ o.who \in Drivers =>
                 /\ drv'[o.who].activeRide = drv[o.who].activeRide
                 /\ drv'[o.who].isTracking = o.pre.isTracking
                 /\ drv'[o.who].startLocation = o.pre.startLocation
                 /\ drv'[o.who].mileage = o.pre.mileage]_vars

\* C16: after resetRide, after a customer cancel that succeeded, and after
\* a snapshot with no active and no recently completed ride of the
\* customer, the cache has neither an activeRide nor a currentRideId entry.
C16_CacheClearedWithTheRide ==
  [][LET list == listenToAllCustomerRides(rides, "c1")
         NothingToShow == /\ activeRides(list) = <<>>
                          /\ recentlyCompletedRides(list, now) = <<>>
         Cancelled == \E o \in ops : /\ o.who = "c1" /\ o.kind = "cancel"
                                     /\ o.pc = "resume" /\ o \notin ops'
         Reset == /\ cust["c1"].activeRide.status = "completed"
                  /\ ~Exists(cust'["c1"].activeRide)
                  /\ ops' = ops
         Snapshot == /\ NothingToShow
                     /\ ops' = ops /\ now' = now /\ rides' = rides
                     /\ cust'["c1"] = CustomerReset(cust["c1"])
     IN  (Cancelled \/ Reset \/ Snapshot) =>
           /\ ~Exists(storage'["c1"].activeRide)
           /\ storage'["c1"].currentRideId = 0]_vars

\* C17: whatever places have been saved, the stored list has at most five
\* entries, each the latest place saved under its id, ordered from the most
\* recently saved to the least, of pairwise different ids, and no place
\* left out was saved after one that is in the list.
C17_RecentSearchesAreTheLatestFive ==
  LET saved == searches.saved
      stored == searches.stored
      ids == {saved[i].id : i \in 1..Len(saved)}
      last(id) == CHOOSE i \in 1..Len(saved) :
                    /\ saved[i].id = id
                    /\ \A j \in (i + 1)..Len(saved) : saved[j].id # id
  IN  /\ Len(stored) <= 5
      /\ Len(stored) = IF Cardinality(ids) < 5 THEN Cardinality(ids) ELSE 5
      /\ \A k \in 1..Len(stored) :
           /\ stored[k].id \in ids
           /\ stored[k] = saved[last(stored[k].id)]
      /\ \A k, l \in 1..Len(stored) :
           k < l => /\ stored[k].id # stored[l].id
                    /\ last(stored[k].id) > last(stored[l].id)
      /\ \A id \in ids :
           (\A k \in 1..Len(stored) : stored[k].id # id) =>
             \A k \in 1..Len(stored) : last(id) < last(stored[k].id)

\* A full list of five in which a place already present, and not first,
\* has just been saved again.
C17_ResavedInFullList ==
  /\ Len(searches.stored) = 5
  /\ Len(searches.saved) = 6
  /\ searches.stored[1] = searches.saved[6]
  /\ \E i \in 1..4 : searches.saved[i].id = searches.saved[6].id

\* C18: once a session shows what its listener delivers for the store as
\* it is, a step after which no write is in flight, no timer and no
\* position request is pending and the store is as before leaves the
\* session showing it: the customer's active ride is the customer's
\* pending, accepted or started record, or none, and a driver's active ride
\* is the driver's accepted or started record, or none.
C18_SessionsSettleOnTheStore ==
  [][LET list == listenToAllCustomerRides(rides, "c1")
         remote == IF activeRides(list) # <<>> THEN activeRides(list)[1] ELSE Blank
     IN  (ops' = {} /\ timers' = {} /\ geo' = {} /\ rides' = rides) =>
           /\ cust["c1"].activeRide = remote => cust'["c1"].activeRide = remote
           /\ \A d \in Drivers :
                drv[d].activeRide = listenToDriverActiveRide(d) =>
                  drv'[d].activeRide = listenToDriverActiveRide(d)]_vars

\* C19: when the write of an acceptRide lands, the driver has a phone
\* number on file and the record is pending just before it, and the write
\* makes it accepted with the driver's id, name and phone number; on a
\* record that is no longer pending the write changes nothing.
C19_AcceptOnlyWhilePending ==
  [][\A o \in ops :
       (o.kind = "accept" /\ o.pc = "set" /\ [o EXCEPT !.pc = "resume"] \in ops') =>
         IF rides[o.rid].status = "pending" /\ drv[o.who].hasPhoneNumber
           THEN /\ rides'[o.rid].status = "accepted"
                /\ rides'[o.rid].driverId = o.who
                /\ rides'[o.rid].driverName = DriverNameOf(o.who)
                /\ rides'[o.rid].driverPhoneNumber = DriverPhoneOf(o.who)
           ELSE rides' = rides]_vars

\* C20: the write of an acceptRide lands whatever the record holds, also
\* when another driver has accepted it: the record then is accepted with
\* the writer's id, name and phone number, the handler resumes (no error),
\* and on resuming the driver holds the ride as accepted by them.
C20_LastAccepterWins ==
  [][\A o \in ops :
       /\ (o.kind = "accept" /\ o.pc = "set" /\ o \notin ops') =>
            /\ [o EXCEPT !.pc = "resume"] \in ops'
            /\ rides'[o.rid].status = "accepted"
            /\ rides'[o.rid].driverId = o.who
            /\ rides'[o.rid].driverName = DriverNameOf(o.who)
            /\ rides'[o.rid].driverPhoneNumber = DriverPhoneOf(o.who)
       /\ (o.kind = "accept" /\ o.pc = "resume" /\ o \notin ops') =>
            /\ drv'[o.who].activeRide.id = o.rid
            /\ drv'[o.who].activeRide.status = "accepted"
            /\ drv'[o.who].activeRide.driverId = o.who]_vars

\* Both drivers' accepts of the same ride have landed and resumed, the
\* second over the first: each holds the ride, the record names one.
C20_BothAccepted ==
  \E k \in RideIds :
    /\ rides[k].status = "accepted"
    /\ rides[k].driverId = "d2"
    /\ rides[k].driverPhoneNumber = DriverPhoneOf("d2")
    /\ \A d \in Drivers :
         /\ drv[d].activeRide.id = k
         /\ drv[d].activeRide.status = "accepted"
         /\ drv[d].activeRide.driverId = d
    /\ ops = {}

\* C21: the write of an updateRideRequest call changes only the fields its
\* updates name: every other field of the record is, after the write, what
\* it was just before it, so that of two calls naming disjoint fields the
\* record carries both updates whatever the order of their reads and writes.
C21_WriteTouchesOnlyNamedFields ==
  [][\A o \in ops :
       (o.pc = "set" /\ o \notin ops' /\ Exists(rides[o.rid])) =>
         \A f \in Fields \ DOMAIN o.upd : rides'[o.rid][f] = rides[o.rid][f]]_vars

\* C22: a position callback that tracks adds to the session's mileage the
\* distance between the previous position sample and the new one.
C22_MileageAddsDistanceFromPrevious ==
  [][\A d \in Drivers :
       (/\ \E g \in geo : g.who = d /\ g \notin geo' /\ GeoTracks(g)
        /\ drv'[d].fixes = drv[d].fixes + 1) =>
         drv'[d].mileage =
           drv[d].mileage + calculateDistance(drv[d].currentLocation,
                                              drv'[d].currentLocation)]_vars

\* C23: a location write (currentDriverLocation, calculatedMileage) lands
\* only on a record whose status is started.
C23_LocationWritesOnlyWhileStarted ==
  [][\A o \in ops :
       (o.kind = "location" /\ o.pc = "set" /\ o \notin ops') =>
         rides[o.rid].status = "started"]_vars

\* C24: the write of cancelAcceptedRide lands only on a record whose status
\* is accepted; it makes the status pending, removes driverId, driverName
\* and driverPhoneNumber and keeps every other field; when the handler
\* resumes, the driver's active ride and tracking state are cleared.
C24_HandBackOnlyAccepted ==
  [][\A o \in ops :
       /\ (o.kind = "cancelAccepted" /\ o.pc = "update" /\ o \notin ops') =>
            /\ rides[o.rid].status = "accepted"
            /\ rides'[o.rid] = [rides[o.rid] EXCEPT
                                  !.status = "pending", !.driverId = NoneStr,
                                  !.driverName = NoneStr,
                                  !.driverPhoneNumber = NoneStr]
       /\ (o.kind = "cancelAccepted" /\ o.pc = "resume" /\ o \notin ops') =>
            /\ ~Exists(drv'[o.who].activeRide)
            /\ ~drv'[o.who].isTracking
            /\ drv'[o.who].startLocation = NoneInt
            /\ drv'[o.who].mileage = 0]_vars

\* C25: a driver session has a phone number on file only if it is the
\* number saved for that driver.
C25_PhoneOnFileIsTheDriversOwn ==
  \A d \in Drivers :
    drv[d].hasPhoneNumber => drv[d].userPhoneNumber = DriverPhoneOf(d)

\* C26: a requestRide carries the customer's id, position, selected
\* destination and entered price as they are when it is called; its create
\* step writes exactly one record, under a key that had none: pending,
\* mileage 0, no driver, with the values the request carries; no other step of
\* the request writes; and when the handler resumes, the session's current
\* ride, its currentRideId and both cache entries carry that record's id.
C26_RequestCreatesOnePendingRide ==
  [][/\ \A o \in ops' \ ops :
          (o.kind = "request" /\ o.pc = "check") =>
            /\ o.upd.customerId = o.who
            /\ o.upd.pickupLocation = cust[o.who].currentLocation
            /\ o.upd.destinationLocation = cust[o.who].selectedDestination
            /\ o.upd.estimatedPrice = parseFloat(cust[o.who].manualPrice)
     /\ \A o \in ops :
       (o.kind = "request" /\ o \notin ops') =>
         IF o.pc = "create"
           THEN \E k \in RideIds :
                  /\ ~Exists(rides[k])
                  /\ \A j \in RideIds \ {k} : rides'[j] = rides[j]
                  /\ [o EXCEPT !.pc = "resume", !.rid = k] \in ops'
                  /\ rides'[k].status = "pending"
                  /\ rides'[k].calculatedMileage = 0
                  /\ rides'[k].driverId = NoneStr
                  /\ rides'[k].customerId = o.who
                  /\ rides'[k].pickupLocation = o.upd.pickupLocation
                  /\ rides'[k].destinationLocation = o.upd.destinationLocation
                  /\ rides'[k].estimatedPrice = o.upd.estimatedPrice
           ELSE /\ rides' = rides
                /\ o.pc = "resume" =>
                     /\ rides[o.rid].customerId = o.who
                     /\ cust'[o.who].activeRide.id = o.rid
                     /\ cust'[o.who].activeRide.status = "pending"
                     /\ cust'[o.who].currentRideId = o.rid
                     /\ storage'[o.who].activeRide.id = o.rid
                     /\ storage'[o.who].currentRideId = o.rid]_vars

\* A request with an entered price has resumed: the record, the session
\* and the cache name the same ride.
C26_RequestedAtEnteredPrice ==
  /\ cust["c1"].activeRide.id \in RideIds
  /\ cust["c1"].activeRide.requestTime[1] = "iso"
  /\ rides[cust["c1"].activeRide.id].status = "pending"
  /\ rides[cust["c1"].activeRide.id].estimatedPrice = 4050
  /\ storage["c1"].currentRideId = cust["c1"].activeRide.id

\* C27: when a grace timer fires while the session shows a pending,
\* accepted or started ride, that ride stays the session's active ride and
\* stays in the cache.
C27_GraceTimerSparesNewRide ==
  [][\A t \in timers :
       (/\ t \notin timers'
        /\ cust[t.who].activeRide.status \in ActiveStatuses) =>
         /\ cust'[t.who].activeRide = cust[t.who].activeRide
         /\ cust'[t.who].currentRideId = cust[t.who].currentRideId
         /\ storage'[t.who] = storage[t.who]]_vars

\* C28: a driver session with no handler call in flight has isTracking set
\* only if it holds an active ride whose status is started and its
\* startLocation is set.
C28_TrackingOnlyOnStartedRide ==
  \A d \in Drivers :
    (OpsOf(d) = {} /\ drv[d].isTracking) =>
      /\ Exists(drv[d].activeRide)
      /\ drv[d].activeRide.status = "started"
      /\ drv[d].startLocation # NoneInt

\* C29: at startup a session adopts the cached ride, as it is cached, when
\* there is one and its customerId is the session's customer, and starts
\* with no ride otherwise; no session ever shows a ride of another customer.
C29_RestoresOnlyOwnRide ==
  /\ [](\A c \in Customers :
          Exists(cust[c].activeRide) => cust[c].activeRide.customerId = c)
  /\ [][\A c \in Customers :
          customerMount(c, "c1") =>
            cust'[c].activeRide =
              IF /\ Exists(storage["c1"].activeRide)
                 /\ storage["c1"].currentRideId # 0
                 /\ storage["c1"].activeRide.customerId = c
                THEN storage["c1"].activeRide
                ELSE Blank]_vars

\* The customer has reloaded and sees the ride they requested, restored
\* from the cache: it still has the request time the handler gave it, and
\* the page has not been given a position yet.
C29_OwnRideRestored ==
  /\ cust["c1"].activeRide.customerId = "c1"
  /\ cust["c1"].activeRide.requestTime[1] = "iso"
  /\ cust["c1"].currentLocation = NoneInt
  /\ storage["c1"].activeRide = cust["c1"].activeRide

\* C30: what the driver's active-ride listener delivers, and the callback
\* stores, is a record of the store whose driverId is the subscribed driver
\* and whose status is accepted or started, or null when the store has no
\* such record; a completed record is never delivered.
C30_DeliversOnlyAcceptedOrStarted ==
  [][\A d \in Drivers :
       DriverActiveSnapshot(d) =>
         LET ride == drv'[d].activeRide IN
         \/ /\ ride = Blank
            /\ \A k \in RideIds :
                 ~(rides[k].driverId = d /\ rides[k].status \in {"accepted", "started"})
         \/ /\ ride.id \in RideIds
            /\ ride = WithId(rides[ride.id], ride.id)
            /\ ride.driverId = d
            /\ ride.status \in {"accepted", "started"}]_vars

\* After the driver's ride was completed a snapshot has set the session's
\* active ride to null: the trip's start location is still there.
C30_NullAfterCompleted ==
  /\ \E k \in RideIds : rides[k].status = "completed" /\ rides[k].driverId = "d1"
  /\ ~Exists(drv["d1"].activeRide)
  /\ drv["d1"].startLocation # NoneInt
  /\ ops = {}

====
